---- MODULE Spec2Model ----
(***************************************************************************)
(* State-machine model of the generic select field, Select[T], of          *)
(* src/field_select.go: configuration setters, Focus/Blur, the Update      *)
(* handler of the interactive path, View, and the prompt loop of the       *)
(* accessible path (runAccessible).                                        *)
(*                                                                         *)
(* Go slices are 0-based and TLA+ sequences 1-based: options[i] of the     *)
(* source is options[i + 1] here; `selected` keeps the source's 0-based    *)
(* value.  A run-time panic (index out of range, nil dereference) is       *)
(* modelled by panicked = TRUE; a panicked program takes no further step.  *)
(***************************************************************************)
EXTENDS Integers, Sequences, FiniteSets, TLC

(***************************************************************************)
(* Bounds of the model.                                                    *)
(***************************************************************************)
\* The value type T is 0..NumVals; 0 stands for the zero value of T.
NumVals == 2
\* Longest option list handed to NewSelect / Options.
MaxOpts == 3

T == 0 .. NumVals

\* The zero value of T, the content of new(T).
Zero == 0

Max(a, b) == IF a >= b THEN a ELSE b
Min(a, b) == IF a <= b THEN a ELSE b

(***************************************************************************)
(* Errors.  NoErr is Go's nil error; a validator that rejects v returns an *)
(* error that names v.                                                     *)
(***************************************************************************)
NoErr == << >>
Err(v) == << "invalid", v >>

\* The validator that rejects exactly the values of S.
Rejecting(S) == [v \in T |-> IF v \in S THEN Err(v) ELSE NoErr]

\* The validators handed to Validate: the one that always succeeds, the one
\* that always fails, and the ones that reject a single value.
Validators == { Rejecting({}), Rejecting(T) } \cup { Rejecting({v}) : v \in T }

\* The default validator installed by NewSelect: func(T) error { return nil }.
AcceptAll == [v \in T |-> NoErr]

(***************************************************************************)
(* Options.  NewSelect builds Option{Key: fmt.Sprint(option), Value:       *)
(* option}; the lists handed to NewSelect and Options are the runs         *)
(* first, first + 1, ... of at most MaxOpts consecutive values of T, the   *)
(* empty list included.                                                    *)
(***************************************************************************)
Sprint(v) == ToString(v)
Option(v) == [Key |-> Sprint(v), Value |-> v]

\* The list of the n options whose values are first, first + 1, ...
Consecutive(first, n) == [i \in 1 .. n |-> Option(first + i - 1)]

OptionLists ==
    { Consecutive(a[1], a[2]) :
        a \in { b \in T \X (0 .. MaxOpts) : b[1] + b[2] - 1 <= NumVals } }

(***************************************************************************)
(* Messages and key bindings.                                              *)
(***************************************************************************)
Keys == { "up", "down", "shift+tab", "enter", "x" }
KeyMsg(k) == [type |-> "KeyMsg", key |-> k]
\* Any message that is not a tea.KeyMsg (a window-size message, a tick).
OtherMsg == [type |-> "other", key |-> ""]
Msgs == { KeyMsg(k) : k \in Keys } \cup { OtherMsg }

\* The SelectKeyMap a container installs through WithKeyMap.
SelectKeyMap ==
    [Up |-> { "up" }, Down |-> { "down" }, Prev |-> { "shift+tab" }, Next |-> { "enter" }]

\* key.Matches(msg, binding)
Matches(m, binding) == m.key \in binding

\* The cells a caller hands to Value: the caller's own storage.  (The
\* operations below also say what a nil s.value does; no caller of Spec
\* hands one over.)
Cells == { "ext" }

VARIABLES
    value,      \* the pointer s.value: "own" (new(T)), "ext" (caller's cell), "nil"
    cell,       \* the content of the two cells a pointer can name
    options,    \* s.options
    validate,   \* s.validate
    err,        \* s.err
    selected,   \* s.selected
    focused,    \* s.focused
    theme,      \* s.theme: "nil" or "theme"
    keymap,     \* s.keymap: "nil" or "select"
    pc,         \* "idle", or "prompt" while runAccessible blocks in its loop
    op,         \* the method that ran last ("setter" for a configuration setter)
    msg,        \* the message the last Update handled
    cmd,        \* the tea.Cmd the last operation returned
    validated,  \* the arguments of the validator calls of the last operation (of the
                \* last loop iteration in runAccessible)
    written,    \* the values the last operation stored through s.value
    printed,    \* the last line the accessible path printed
    panicked,   \* a run-time panic has ended the program
    form        \* the container that drives the field, NoForm for a field on its own

vars == << value, cell, options, validate, err, selected, focused, theme, keymap,
           pc, op, msg, cmd, validated, written, printed, panicked, form >>

field == << value, cell, options, validate, err, selected, focused, theme, keymap >>

NoCmd == "nil"
NoMsg == [type |-> "none", key |-> ""]

\* Number of fields of the form a container drives.
NumFields == 3

\* The value of form while no container drives the field.
NoForm == [stage |-> "none", pos |-> 0, cur |-> 0, others |-> << >>, signal |-> NoCmd]

\* *s.value
BoundValue == cell[value]

\* len(s.options)
NumOptions == Len(options)

\* The index expression s.options[i] is in range.
InRange(i) == 0 <= i /\ i < NumOptions

(***************************************************************************)
(* NewSelect(options...)                                                   *)
(***************************************************************************)
Init ==
    /\ options \in OptionLists
    /\ value = "own"
    /\ cell = [c \in { "own", "ext" } |-> Zero]
    /\ validate = AcceptAll
    /\ err = NoErr
    /\ selected = 0
    /\ focused = FALSE
    /\ theme = "nil"
    /\ keymap = "nil"
    /\ pc = "idle"
    /\ op = "NewSelect"
    /\ msg = NoMsg
    /\ cmd = NoCmd
    /\ validated = << >>
    /\ written = << >>
    /\ printed = << >>
    /\ panicked = FALSE
    /\ form = NoForm

\* An operation can start: no panic, and runAccessible is not blocking.
Callable == ~panicked /\ pc = "idle"

\* What every operation that is not Update or runAccessible leaves behind.
Called(name) ==
    /\ op' = name
    /\ msg' = NoMsg
    /\ cmd' = NoCmd
    /\ printed' = << >>
    /\ pc' = pc

(***************************************************************************)
(* Configuration setters.                                                  *)
(***************************************************************************)
\* Value(value *T)
Value(p) ==
    /\ Callable
    /\ value' = p
    /\ Called("setter")
    /\ validated' = << >> /\ written' = << >>
    /\ UNCHANGED << cell, options, validate, err, selected, focused, theme, keymap, panicked, form >>

\* Options(options ...Option[T])
Options(opts) ==
    /\ Callable
    /\ options' = opts
    /\ Called("setter")
    /\ validated' = << >> /\ written' = << >>
    /\ UNCHANGED << value, cell, validate, err, selected, focused, theme, keymap, panicked, form >>

\* Validate(validate func(T) error)
Validate(f) ==
    /\ Callable
    /\ validate' = f
    /\ Called("setter")
    /\ validated' = << >> /\ written' = << >>
    /\ UNCHANGED << value, cell, options, err, selected, focused, theme, keymap, panicked, form >>

\* WithTheme(theme *Theme)
WithTheme(t) ==
    /\ Callable
    /\ theme' = t
    /\ Called("setter")
    /\ validated' = << >> /\ written' = << >>
    /\ UNCHANGED << value, cell, options, validate, err, selected, focused, keymap, panicked, form >>

\* WithKeyMap(k *KeyMap): s.keymap = &k.Select
WithKeyMap ==
    /\ Callable
    /\ keymap' = "select"
    /\ Called("setter")
    /\ validated' = << >> /\ written' = << >>
    /\ UNCHANGED << value, cell, options, validate, err, selected, focused, theme, panicked, form >>

\* Error() error
Error == err

(***************************************************************************)
(* Focus and Blur.                                                         *)
(***************************************************************************)
\* The value Focus assigns to s.focused.
FocusedAfterFocus == TRUE

\* The body of Focus: s.focused = true; return nil.
FocusField ==
    /\ focused' = FocusedAfterFocus
    /\ Called("Focus")
    /\ validated' = << >> /\ written' = << >>
    /\ UNCHANGED << value, cell, options, validate, err, selected, theme, keymap, panicked >>

\* Focus() called on a field that no container drives.
Focus ==
    /\ Callable
    /\ FocusField
    /\ UNCHANGED form

\* BlurArg taken from the highlighted option instead of the bound cell.
BlurArgHighlighted ==
    IF 0 <= selected /\ selected < Len(options)
    THEN options[selected + 1].Value
    ELSE cell[value]

\* BlurArg taken from a fresh zero value instead of the bound cell.
BlurArgZero == Zero

\* The argument Blur hands to the validator: *s.value.
BlurArg == BoundValue

\* FocusedAfterBlur of a field that refuses the blur when validation fails.
FocusedAfterBlurRefusing == validate[cell[value]] # NoErr

\* FocusedAfterBlur of a Blur that forgets to clear the flag.
FocusedAfterBlurKept == TRUE

\* The value Blur assigns to s.focused.
FocusedAfterBlur == FALSE

\* The body of Blur: s.focused = false; s.err = s.validate(*s.value).  The
\* dereference of a nil s.value panics after focused was cleared and before
\* the validator runs.
BlurField ==
    /\ focused' = FocusedAfterBlur
    /\ Called("Blur")
    /\ written' = << >>
    /\ IF value = "nil"
       THEN /\ panicked' = TRUE
            /\ validated' = << >>
            /\ err' = err
       ELSE /\ panicked' = FALSE
            /\ validated' = << BlurArg >>
            /\ err' = validate[BlurArg]
    /\ UNCHANGED << value, cell, options, validate, selected, theme, keymap >>

\* Blur() called on a field that no container drives.
Blur ==
    /\ Callable
    /\ BlurField
    /\ UNCHANGED form

(***************************************************************************)
(* Update(msg tea.Msg) (tea.Model, tea.Cmd)                                *)
(***************************************************************************)
\* The binding set s.keymap points to.
Bindings == SelectKeyMap

\* What a call of Update leaves behind: the message and the returned command.
Returned(m, c) ==
    /\ op' = "Update"
    /\ msg' = m
    /\ cmd' = c
    /\ printed' = << >>
    /\ pc' = pc
    /\ form' = form

\* max(s.selected-1, 0)
CursorUp(sel) == Max(sel - 1, 0)

\* CursorDown with a wrap to the first option in place of the clamp.
CursorDownWrap(sel) == IF sel + 1 > NumOptions - 1 THEN 0 ELSE sel + 1

\* min(s.selected+1, len(s.options)-1)
CursorDown(sel) == Min(sel + 1, NumOptions - 1)

\* A tea.KeyMsg while s.keymap is nil: s.err is cleared, then the first
\* key.Matches(msg, s.keymap.Up) dereferences the nil keymap.
UpdateNilKeyMap(m) ==
    /\ Callable
    /\ m.type = "KeyMsg"
    /\ keymap = "nil"
    /\ err' = NoErr
    /\ panicked' = TRUE
    /\ Returned(m, NoCmd)
    /\ validated' = << >> /\ written' = << >>
    /\ UNCHANGED << value, cell, options, validate, selected, focused, theme, keymap >>

\* UpdateUp with s.err = nil left out.
UpdateUpKeepsErr(m) ==
    /\ Callable
    /\ m.type = "KeyMsg"
    /\ keymap # "nil"
    /\ Matches(m, Bindings.Up)
    /\ selected' = CursorUp(selected)
    /\ Returned(m, NoCmd)
    /\ validated' = << >> /\ written' = << >>
    /\ UNCHANGED << value, cell, options, validate, err, focused, theme, keymap, panicked >>

\* UpdateUp that moves the cursor of a focused field only.
UpdateUpIfFocused(m) ==
    /\ Callable
    /\ m.type = "KeyMsg"
    /\ keymap # "nil"
    /\ Matches(m, Bindings.Up)
    /\ err' = NoErr
    /\ selected' = (IF focused THEN CursorUp(selected) ELSE selected)
    /\ Returned(m, NoCmd)
    /\ validated' = << >> /\ written' = << >>
    /\ UNCHANGED << value, cell, options, validate, focused, theme, keymap, panicked >>

\* case key.Matches(msg, s.keymap.Up)
UpdateUp(m) ==
    /\ Callable
    /\ m.type = "KeyMsg"
    /\ keymap # "nil"
    /\ Matches(m, Bindings.Up)
    /\ err' = NoErr
    /\ selected' = CursorUp(selected)
    /\ Returned(m, NoCmd)
    /\ validated' = << >> /\ written' = << >>
    /\ UNCHANGED << value, cell, options, validate, focused, theme, keymap, panicked >>

\* case key.Matches(msg, s.keymap.Down)
UpdateDown(m) ==
    /\ Callable
    /\ m.type = "KeyMsg"
    /\ keymap # "nil"
    /\ ~Matches(m, Bindings.Up)
    /\ Matches(m, Bindings.Down)
    /\ err' = NoErr
    /\ selected' = CursorDown(selected)
    /\ Returned(m, NoCmd)
    /\ validated' = << >> /\ written' = << >>
    /\ UNCHANGED << value, cell, options, validate, focused, theme, keymap, panicked >>

\* UpdatePrev gated by the validator the way the Next case is.
UpdatePrevValidated(m) ==
    /\ Callable
    /\ m.type = "KeyMsg"
    /\ keymap # "nil"
    /\ ~Matches(m, Bindings.Up)
    /\ ~Matches(m, Bindings.Down)
    /\ Matches(m, Bindings.Prev)
    /\ IF InRange(selected)
       THEN /\ err' = validate[options[selected + 1].Value]
            /\ validated' = << options[selected + 1].Value >>
            /\ Returned(m, IF err' # NoErr THEN NoCmd ELSE "prevField")
       ELSE /\ err' = NoErr
            /\ validated' = << >>
            /\ Returned(m, "prevField")
    /\ written' = << >>
    /\ UNCHANGED << value, cell, options, validate, selected, focused, theme, keymap, panicked >>

\* UpdatePrev that blurs the field itself before it returns prevField.
UpdatePrevBlurs(m) ==
    /\ Callable
    /\ m.type = "KeyMsg"
    /\ keymap # "nil"
    /\ ~Matches(m, Bindings.Up)
    /\ ~Matches(m, Bindings.Down)
    /\ Matches(m, Bindings.Prev)
    /\ focused' = FALSE
    /\ err' = validate[cell[value]]
    /\ validated' = << cell[value] >>
    /\ Returned(m, "prevField")
    /\ written' = << >>
    /\ UNCHANGED << value, cell, options, validate, selected, theme, keymap, panicked >>

\* case key.Matches(msg, s.keymap.Prev): return s, prevField
UpdatePrev(m) ==
    /\ Callable
    /\ m.type = "KeyMsg"
    /\ keymap # "nil"
    /\ ~Matches(m, Bindings.Up)
    /\ ~Matches(m, Bindings.Down)
    /\ Matches(m, Bindings.Prev)
    /\ err' = NoErr
    /\ Returned(m, "prevField")
    /\ validated' = << >> /\ written' = << >>
    /\ UNCHANGED << value, cell, options, validate, selected, focused, theme, keymap, panicked >>

\* NextOutcome with the write moved before the error check.
NextOutcomeWriteAnyway(e) ==
    [write |-> TRUE, cmd |-> IF e # NoErr THEN NoCmd ELSE "nextField"]

\* NextOutcome with the write of the cell left out.
NextOutcomeNoWrite(e) ==
    [write |-> FALSE, cmd |-> IF e # NoErr THEN NoCmd ELSE "nextField"]

\* NextOutcome with the error check left out before return s, nextField.
NextOutcomeAdvanceAnyway(e) ==
    [write |-> (e = NoErr), cmd |-> "nextField"]

\* NextOutcome that refuses to select again the value the cell already holds.
NextOutcomeOnce(e) ==
    IF e # NoErr
       \/ (0 <= selected /\ selected < Len(options)
             /\ cell[value] = options[selected + 1].Value)
    THEN [write |-> FALSE, cmd |-> NoCmd]
    ELSE [write |-> TRUE, cmd |-> "nextField"]

\* The tail of the Next case once s.err holds the validator's answer e:
\* return s, nil on an error, else write the cell and return s, nextField.
NextOutcome(e) ==
    IF e # NoErr THEN [write |-> FALSE, cmd |-> NoCmd]
    ELSE [write |-> TRUE, cmd |-> "nextField"]

\* case key.Matches(msg, s.keymap.Next).  s.options[s.selected] panics when
\* the cursor is out of range, and *s.value = value when s.value is nil; in
\* both cases the assignments made before the panic stand.
UpdateNext(m) ==
    /\ Callable
    /\ m.type = "KeyMsg"
    /\ keymap # "nil"
    /\ ~Matches(m, Bindings.Up)
    /\ ~Matches(m, Bindings.Down)
    /\ ~Matches(m, Bindings.Prev)
    /\ Matches(m, Bindings.Next)
    /\ IF ~InRange(selected)
       THEN /\ err' = NoErr
            /\ panicked' = TRUE
            /\ validated' = << >> /\ written' = << >>
            /\ cell' = cell
            /\ Returned(m, NoCmd)
       ELSE LET v == options[selected + 1].Value
                e == validate[v]
                out == NextOutcome(e)
            IN  /\ err' = e
                /\ validated' = << v >>
                /\ IF ~out.write
                   THEN /\ panicked' = FALSE
                        /\ written' = << >>
                        /\ cell' = cell
                        /\ Returned(m, out.cmd)
                   ELSE IF value = "nil"
                   THEN /\ panicked' = TRUE
                        /\ written' = << >>
                        /\ cell' = cell
                        /\ Returned(m, NoCmd)
                   ELSE /\ panicked' = FALSE
                        /\ written' = << v >>
                        /\ cell' = [cell EXCEPT ![value] = v]
                        /\ Returned(m, out.cmd)
    /\ UNCHANGED << value, options, validate, selected, focused, theme, keymap >>

\* UpdateUnboundKey with s.err = nil moved into the four cases.
UpdateUnboundKeyKeepsErr(m) ==
    /\ Callable
    /\ m.type = "KeyMsg"
    /\ keymap # "nil"
    /\ ~Matches(m, Bindings.Up)
    /\ ~Matches(m, Bindings.Down)
    /\ ~Matches(m, Bindings.Prev)
    /\ ~Matches(m, Bindings.Next)
    /\ Returned(m, NoCmd)
    /\ validated' = << >> /\ written' = << >>
    /\ UNCHANGED << value, cell, options, validate, err, selected, focused, theme, keymap, panicked >>

\* A tea.KeyMsg that matches none of the four bindings: s.err was cleared
\* before the inner switch, nothing else happens.
UpdateUnboundKey(m) ==
    /\ Callable
    /\ m.type = "KeyMsg"
    /\ keymap # "nil"
    /\ ~Matches(m, Bindings.Up)
    /\ ~Matches(m, Bindings.Down)
    /\ ~Matches(m, Bindings.Prev)
    /\ ~Matches(m, Bindings.Next)
    /\ err' = NoErr
    /\ Returned(m, NoCmd)
    /\ validated' = << >> /\ written' = << >>
    /\ UNCHANGED << value, cell, options, validate, selected, focused, theme, keymap, panicked >>

\* A message that is not a tea.KeyMsg falls through the outer type switch.
UpdateOtherMsg(m) ==
    /\ Callable
    /\ m.type # "KeyMsg"
    /\ Returned(m, NoCmd)
    /\ validated' = << >> /\ written' = << >>
    /\ UNCHANGED << value, cell, options, validate, err, selected, focused, theme, keymap, panicked >>

Update(m) ==
    \/ UpdateNilKeyMap(m)
    \/ UpdateUp(m)
    \/ UpdateDown(m)
    \/ UpdatePrev(m)
    \/ UpdateNext(m)
    \/ UpdateUnboundKey(m)
    \/ UpdateOtherMsg(m)

(***************************************************************************)
(* View() string                                                           *)
(***************************************************************************)
\* The text View builds, up to styling: the style set chosen by focused, the
\* error indicator, and one row per option with the selector on the cursor.
ViewText ==
    [ styles |-> IF focused THEN "Focused" ELSE "Blurred",
      errorIndicator |-> err # NoErr,
      rows |-> [i \in 1 .. NumOptions |->
                   [selector |-> (selected = i - 1), label |-> options[i].Key]] ]

\* View that clears the error it has rendered.
ViewClearsErr ==
    /\ Callable
    /\ Called("View")
    /\ validated' = << >> /\ written' = << >>
    /\ panicked' = (theme = "nil")
    /\ err' = NoErr
    /\ UNCHANGED << value, cell, options, validate, selected, focused, theme, keymap, form >>

\* s.theme.Blurred dereferences a nil theme.
View ==
    /\ Callable
    /\ Called("View")
    /\ validated' = << >> /\ written' = << >>
    /\ panicked' = (theme = "nil")
    /\ UNCHANGED << field, form >>

(***************************************************************************)
(* runAccessible() error                                                   *)
(***************************************************************************)
\* accessibility.PromptInt("Choose: ", 1, len(s.options)): the integers the
\* prompt can return.
PromptInt(lo, hi) == lo .. hi

\* Entry of runAccessible up to the loop: the numbered listing is printed
\* with the theme's styles (a nil theme panics).
RunAccessible ==
    /\ Callable
    /\ op' = "runAccessible"
    /\ msg' = NoMsg
    /\ cmd' = NoCmd
    /\ validated' = << >> /\ written' = << >>
    /\ IF theme = "nil"
       THEN /\ panicked' = TRUE
            /\ pc' = pc
            /\ printed' = << >>
       ELSE /\ panicked' = FALSE
            /\ pc' = "prompt"
            /\ printed' = << "listing", ToString(NumOptions) >>
    /\ UNCHANGED << field, form >>

\* LoopOutcome with the break after an accepted choice left out.
LoopOutcomeAlwaysContinue(e) == "continue"

\* LoopOutcome with the continue on a validation error left out.
LoopOutcomeAlwaysBreak(e) == "break"

\* The branch the loop body takes on the validator's answer e: print the
\* error and continue, or print the choice, write the cell and break.
LoopOutcome(e) == IF e # NoErr THEN "continue" ELSE "break"

\* One iteration of the loop for the integer the prompt returned.
Choose(choice) ==
    /\ ~panicked
    /\ pc = "prompt"
    /\ choice \in PromptInt(1, NumOptions)
    /\ msg' = NoMsg
    /\ cmd' = NoCmd
    /\ LET option == options[choice]
           e == validate[option.Value]
       IN  /\ validated' = << option.Value >>
           /\ IF LoopOutcome(e) = "continue"
              THEN /\ op' = "runAccessible"
                   /\ printed' = e
                   /\ pc' = "prompt"
                   /\ written' = written
                   /\ cell' = cell
                   /\ panicked' = FALSE
              ELSE IF value = "nil"
              THEN /\ op' = "runAccessible"
                   /\ printed' = << "Chose: ", option.Key >>
                   /\ pc' = "prompt"
                   /\ written' = written
                   /\ cell' = cell
                   /\ panicked' = TRUE
              ELSE /\ op' = "runAccessible returned nil"
                   /\ printed' = << "Chose: ", option.Key >>
                   /\ pc' = "idle"
                   /\ written' = Append(written, option.Value)
                   /\ cell' = [cell EXCEPT ![value] = option.Value]
                   /\ panicked' = FALSE
    /\ UNCHANGED << value, options, validate, err, selected, focused, theme, keymap, form >>

(***************************************************************************)
(* The specification.                                                      *)
(***************************************************************************)
Next ==
    \/ \E p \in Cells : Value(p)
    \/ \E opts \in OptionLists : Options(opts)
    \/ \E f \in Validators : Validate(f)
    \/ \E t \in { "nil", "theme" } : WithTheme(t)
    \/ WithKeyMap
    \/ Focus
    \/ Blur
    \/ \E m \in Msgs : Update(m)
    \/ View
    \/ RunAccessible
    \/ \E choice \in 1 .. MaxOpts : Choose(choice)

Spec == Init /\ [][Next]_vars

\* The field with callers that may also hand no cell to Value.
NextAnyCell ==
    \/ Next
    \/ Value("nil")

SpecAnyCell == Init /\ [][NextAnyCell]_vars

(***************************************************************************)
(* The accessible path on its own: the field is configured and             *)
(* runAccessible is run.  ChooseAccepted is the user entering a choice the *)
(* validator accepts; weak fairness on it says that a user who can enter   *)
(* such a choice eventually does.                                          *)
(***************************************************************************)
NextAccessible ==
    \/ \E p \in Cells : Value(p)
    \/ \E opts \in OptionLists : Options(opts)
    \/ \E f \in Validators : Validate(f)
    \/ \E t \in { "nil", "theme" } : WithTheme(t)
    \/ RunAccessible
    \/ \E choice \in 1 .. MaxOpts : Choose(choice)

ChooseAccepted ==
    \E choice \in 1 .. MaxOpts :
        /\ choice <= NumOptions
        /\ validate[options[choice].Value] = NoErr
        /\ Choose(choice)

SpecAccessible == Init /\ [][NextAccessible]_vars /\ WF_vars(ChooseAccepted)

(***************************************************************************)
(* The container.  A form of NumFields fields owns one focus cursor; the   *)
(* Select modelled above is the field at form.pos, the other fields are    *)
(* known by their focused flag only.  One input event goes to the field    *)
(* under the cursor; the signal it returns is handled before the next      *)
(* event: advance blurs the current field, moves the cursor and focuses    *)
(* the next field (or completes the form), retreat does the same backward  *)
(* and is a no-op at the first field.                                      *)
(***************************************************************************)
FieldIds == 1 .. NumFields

\* Everything but form.
fieldState == << value, cell, options, validate, err, selected, focused, theme, keymap,
                 pc, op, msg, cmd, validated, written, printed, panicked >>

\* focused of field i of the form.
FocusedAt(i) == IF i = form.pos THEN focused ELSE form.others[i]

\* The navigation signal the field under the cursor has returned and the
\* container has not handled yet.
Signal ==
    IF form.cur = form.pos
    THEN IF op = "Update" THEN cmd ELSE NoCmd
    ELSE form.signal

\* A form around a configured Select at any position, before it starts.
InitForm ==
    /\ options \in OptionLists \ { << >> }
    /\ validate \in Validators
    /\ value = "ext"
    /\ cell = [c \in { "own", "ext" } |-> Zero]
    /\ err = NoErr
    /\ selected = 0
    /\ focused = FALSE
    /\ theme = "theme"
    /\ keymap = "select"
    /\ pc = "idle"
    /\ op = "NewSelect"
    /\ msg = NoMsg
    /\ cmd = NoCmd
    /\ validated = << >>
    /\ written = << >>
    /\ printed = << >>
    /\ panicked = FALSE
    /\ \E p \in FieldIds :
          form = [stage |-> "setup", pos |-> p, cur |-> 1,
                  others |-> [i \in FieldIds |-> FALSE], signal |-> NoCmd]

\* Blur() on field from and Focus() on field to (0: no such field), with
\* the cursor and the stage the container moves to.
MoveFocus(from, to, stage) ==
    /\ form' = [form EXCEPT
                   !.stage = stage,
                   !.cur = IF to = 0 THEN form.cur ELSE to,
                   !.signal = NoCmd,
                   !.others = [i \in FieldIds |->
                                 IF i = form.pos THEN FALSE
                                 ELSE IF i = from THEN FocusedAfterBlur
                                 ELSE IF i = to THEN FocusedAfterFocus
                                 ELSE form.others[i]]]
    /\ IF from = form.pos THEN BlurField
       ELSE IF to = form.pos THEN FocusField
       ELSE UNCHANGED fieldState

\* The form starts: the first field is focused.
FormStart ==
    /\ form.stage = "setup"
    /\ MoveFocus(0, 1, "interactive")

\* An event for the modelled Select, the field under the cursor.
FormKeyThis(m) ==
    /\ form.stage = "interactive"
    /\ form.cur = form.pos
    /\ Signal = NoCmd \/ (Signal = "prevField" /\ form.cur = 1)
    /\ Update(m)

\* An event for another field under the cursor, which returns signal sig.
FormKeyOther(sig) ==
    /\ form.stage = "interactive"
    /\ form.cur # form.pos
    /\ form.signal = NoCmd
    /\ form' = [form EXCEPT !.signal = sig]
    /\ UNCHANGED fieldState

\* The container handles the advance signal.
FormNextField ==
    /\ form.stage = "interactive"
    /\ Signal = "nextField"
    /\ IF form.cur = NumFields
       THEN MoveFocus(form.cur, 0, "complete")
       ELSE MoveFocus(form.cur, form.cur + 1, "interactive")

\* The container handles the retreat signal.
FormPrevField ==
    /\ form.stage = "interactive"
    /\ Signal = "prevField"
    /\ IF form.cur = 1
       THEN /\ form' = [form EXCEPT !.signal = NoCmd]
            /\ UNCHANGED fieldState
       ELSE MoveFocus(form.cur, form.cur - 1, "interactive")

NextForm ==
    \/ FormStart
    \/ \E m \in Msgs : FormKeyThis(m)
    \/ \E sig \in { "nextField", "prevField" } : FormKeyOther(sig)
    \/ FormNextField
    \/ FormPrevField

SpecForm == InitForm /\ [][NextForm]_vars

(***************************************************************************)
(* The event the last call of Update handled, read from the state it left. *)
(* Update does not change s.keymap, so the bindings that resolved the      *)
(* message are the ones of the state.                                      *)
(***************************************************************************)
KeyEvent == op = "Update" /\ msg.type = "KeyMsg" /\ keymap # "nil"
MoveUpEvent == KeyEvent /\ Matches(msg, Bindings.Up)
MoveDownEvent == KeyEvent /\ Matches(msg, Bindings.Down)
RetreatEvent == KeyEvent /\ Matches(msg, Bindings.Prev)
AdvanceEvent == KeyEvent /\ Matches(msg, Bindings.Next)
UnboundKeyEvent ==
    /\ KeyEvent
    /\ \A b \in { Bindings.Up, Bindings.Down, Bindings.Prev, Bindings.Next } : ~Matches(msg, b)
NonKeyEvent == op = "Update" /\ msg.type # "KeyMsg"

\* options[cursor].value of the claims, for a cursor in range.
Highlighted == options[selected + 1].Value

(***************************************************************************)
(* C1: with at least one option and the cursor in range, a move-up or      *)
(* move-down event leaves the cursor in 0..len(options)-1 and saturates:   *)
(* move-up at 0 stays at 0, move-down at len(options)-1 stays there,       *)
(* anywhere else the cursor moves by one; no panic is reached.             *)
(***************************************************************************)
C1_CursorSaturates ==
    [][ ( /\ MoveUpEvent' \/ MoveDownEvent'
          /\ NumOptions >= 1
          /\ InRange(selected) )
        => /\ InRange(selected')
           /\ ~panicked'
           /\ MoveUpEvent' =>
                selected' = (IF selected = 0 THEN 0 ELSE selected - 1)
           /\ MoveDownEvent' =>
                selected' = (IF selected = NumOptions - 1 THEN selected ELSE selected + 1)
      ]_vars

\* A move-down event has left the cursor on the last of several options.
C1_Witness ==
    /\ MoveDownEvent
    /\ NumOptions >= 2
    /\ selected = NumOptions - 1
    /\ ~panicked

(***************************************************************************)
(* C2: an advance-key event whose validator rejects options[cursor].value  *)
(* sets lastError to the validator's error and changes neither the bound   *)
(* value, nor focused, nor the cursor, and returns no navigation signal.   *)
(***************************************************************************)
C2_RejectedAdvance ==
    [][ ( /\ AdvanceEvent'
          /\ InRange(selected)
          /\ validate[Highlighted] # NoErr )
        => /\ err' = validate[Highlighted]
           /\ validated' = << Highlighted >>
           /\ cell' = cell
           /\ value' = value
           /\ focused' = focused
           /\ selected' = selected
           /\ cmd' = NoCmd
           /\ ~panicked'
      ]_vars

\* A focused field refused to advance from its second option.
C2_Witness ==
    /\ AdvanceEvent
    /\ focused
    /\ selected = 1
    /\ InRange(selected)
    /\ err = Err(Highlighted)
    /\ BoundValue # Highlighted
    /\ cmd = NoCmd

(***************************************************************************)
(* C3: an advance-key event whose validator accepts options[cursor].value  *)
(* leaves the bound value equal to options[cursor].value for the cursor at *)
(* the time of the event, lastError nil, and returns the advance signal.   *)
(***************************************************************************)
C3_AcceptedAdvance ==
    [][ ( /\ AdvanceEvent'
          /\ InRange(selected)
          /\ validate[Highlighted] = NoErr )
        => /\ BoundValue' = Highlighted
           /\ written' = << Highlighted >>
           /\ err' = NoErr
           /\ cmd' = "nextField"
           /\ selected' = selected
           /\ ~panicked'
      ]_vars

\* [move-down, move-down, advance] on three options: cursor 2, third value bound.
C3_Witness ==
    /\ AdvanceEvent
    /\ NumOptions = 3
    /\ selected = 2
    /\ BoundValue = options[3].Value
    /\ BoundValue # Zero
    /\ cmd = "nextField"
    /\ err = NoErr

(***************************************************************************)
(* C4: Blur calls the validator exactly once, on the bound value, stores   *)
(* the outcome in lastError, and Error returns that outcome until Update   *)
(* handles the next event (or Blur runs again).                            *)
(***************************************************************************)
C4_BlurValidatesBoundValue ==
    [][ /\ op' = "Blur" =>
              /\ validated' = << BoundValue >>
              /\ Error' = validate[BoundValue]
              /\ ~panicked'
        /\ op' \notin { "Blur", "Update" } => Error' = Error
      ]_vars

\* Blur has recorded an error for the bound value while the highlighted
\* option is one the validator accepts.
C4_Witness ==
    /\ op = "Blur"
    /\ InRange(selected)
    /\ validate[Highlighted] = NoErr
    /\ Error = Err(BoundValue)
    /\ validated = << BoundValue >>

(***************************************************************************)
(* C5: in the interactive path (Update, Focus, Blur, View) the bound cell  *)
(* changes only in an Update step that handles an advance-key event whose  *)
(* validation succeeds, and that step returns the advance signal; whenever *)
(* the advance signal is returned the bound value equals                   *)
(* options[cursor].value.                                                  *)
(***************************************************************************)
C5_WriteOnlyOnAdvance ==
    [][ /\ ( op' \in { "Update", "Focus", "Blur", "View" } /\ cell' # cell )
           => /\ AdvanceEvent'
              /\ InRange(selected)
              /\ validate[Highlighted] = NoErr
              /\ cmd' = "nextField"
        /\ cmd' = "nextField"
           => /\ InRange(selected')
              /\ BoundValue' = Highlighted'
              /\ written' = << Highlighted' >>
        /\ cmd' # "nextField" /\ op' \in { "Update", "Focus", "Blur", "View" }
           => /\ cell' = cell
              /\ written' = << >>
      ]_vars

\* The advance signal is out and the cell holds the highlighted, non-zero value.
C5_Witness ==
    /\ cmd = "nextField"
    /\ value = "ext"
    /\ cell["ext"] = Highlighted
    /\ cell["ext"] # Zero
    /\ written = << Highlighted >>

(***************************************************************************)
(* C6: a retreat-key event returns the retreat signal in every state,      *)
(* without calling the validator and without changing the cursor or the    *)
(* bound value.                                                            *)
(***************************************************************************)
C6_RetreatImmediate ==
    [][ RetreatEvent'
        => /\ cmd' = "prevField"
           /\ validated' = << >>
           /\ selected' = selected
           /\ cell' = cell
           /\ value' = value
           /\ ~panicked'
      ]_vars

\* Retreat was returned although the validator rejects the highlighted option.
C6_Witness ==
    /\ RetreatEvent
    /\ cmd = "prevField"
    /\ InRange(selected)
    /\ validate[Highlighted] # NoErr
    /\ validated = << >>

(***************************************************************************)
(* C7 as claimed: an event that is none of the four actions (an unbound    *)
(* key, a non-key message) leaves cursor, lastError, focused and bound     *)
(* value unchanged and returns no navigation signal.                       *)
(***************************************************************************)
C7_IgnoredEventChangesNothing ==
    [][ ( UnboundKeyEvent' \/ NonKeyEvent' )
        => /\ selected' = selected
           /\ err' = err
           /\ focused' = focused
           /\ cell' = cell
           /\ value' = value
           /\ cmd' = NoCmd
      ]_vars

(***************************************************************************)
(* C7 amended: such an event leaves cursor, focused and bound value        *)
(* unchanged and returns no navigation signal; a non-key message leaves    *)
(* lastError unchanged too, while an unbound key clears lastError to nil.  *)
(***************************************************************************)
C7_IgnoredEventFrame ==
    [][ ( UnboundKeyEvent' \/ NonKeyEvent' )
        => /\ selected' = selected
           /\ err' = (IF UnboundKeyEvent' THEN NoErr ELSE err)
           /\ focused' = focused
           /\ cell' = cell
           /\ value' = value
           /\ cmd' = NoCmd
           /\ validated' = << >>
           /\ ~panicked'
      ]_vars

\* A non-key message was ignored while the field shows an error.
C7_Witness ==
    /\ NonKeyEvent
    /\ err # NoErr
    /\ cmd = NoCmd

(***************************************************************************)
(* C8 as claimed: 0 <= selected < len(options) is kept by every operation  *)
(* of a field that has options, Options(...) with a shorter list included. *)
(***************************************************************************)
C8_CursorInvariantKept ==
    [][ ( NumOptions >= 1 /\ InRange(selected) /\ NumOptions' >= 1 )
        => InRange(selected)'
      ]_vars

(***************************************************************************)
(* C9 as claimed: on a field with zero options move-up, move-down and      *)
(* advance-key are no-ops: the cursor does not change and is not negative, *)
(* and no out-of-range option access (a panic) happens.                    *)
(***************************************************************************)
C9_ZeroOptionsNoOp ==
    [][ ( /\ NumOptions = 0
          /\ MoveUpEvent' \/ MoveDownEvent' \/ AdvanceEvent' )
        => /\ selected' = selected
           /\ selected' >= 0
           /\ ~panicked'
      ]_vars

(***************************************************************************)
(* C10: in the loop of runAccessible the validator runs on the value of    *)
(* the chosen option; on failure the cell is not written and the loop      *)
(* prompts again; on success the cell is set to options[choice-1].value,   *)
(* "Chose: <label>" is printed and nil is returned.  On return the bound   *)
(* value is one the validator accepted and it was written exactly once.    *)
(***************************************************************************)
C10_AccessibleChoice ==
    [][ pc = "prompt"
        => \E choice \in 1 .. NumOptions :
              LET option == options[choice] IN
              /\ validated' = << option.Value >>
              /\ IF validate[option.Value] # NoErr
                 THEN /\ cell' = cell
                      /\ written' = << >>
                      /\ pc' = "prompt"
                      /\ printed' = validate[option.Value]
                 ELSE /\ BoundValue' = option.Value
                      /\ cell' = [cell EXCEPT ![value] = option.Value]
                      /\ written' = << option.Value >>
                      /\ printed' = << "Chose: ", option.Key >>
                      /\ op' = "runAccessible returned nil"
                      /\ pc' = "idle"
                      /\ validate[BoundValue'] = NoErr
      ]_vars

\* runAccessible has returned after the second of three options was chosen.
C10_Witness ==
    /\ op = "runAccessible returned nil"
    /\ NumOptions = 3
    /\ BoundValue = options[2].Value
    /\ printed = << "Chose: ", options[2].Key >>
    /\ written = << options[2].Value >>

(***************************************************************************)
(* C14 as claimed: after Update handles any event other than a failed      *)
(* advance lastError is nil, and lastError becomes a new non-nil error     *)
(* only through Blur or a failed advance.                                  *)
(***************************************************************************)
FailedAdvance == AdvanceEvent /\ err # NoErr

C14_ClearedByEveryEvent ==
    [][ /\ ( op' = "Update" /\ ~FailedAdvance' ) => err' = NoErr
        /\ ( err' # NoErr /\ err' # err ) => ( op' = "Blur" \/ FailedAdvance' )
      ]_vars

(***************************************************************************)
(* C14 amended: after Update handles any key event other than a failed     *)
(* advance lastError is nil (move-up and move-down clear it); a non-key    *)
(* message leaves lastError as it was; lastError becomes a new non-nil     *)
(* error only through Blur or a failed advance.                            *)
(***************************************************************************)
C14_ClearedByKeyEvents ==
    [][ /\ ( op' = "Update" /\ msg'.type = "KeyMsg" /\ ~FailedAdvance' ) => err' = NoErr
        /\ NonKeyEvent' => err' = err
        /\ ( err' # NoErr /\ err' # err ) => ( op' = "Blur" \/ FailedAdvance' )
      ]_vars

\* A move-down has left no error on a blurred field whose bound value the
\* validator rejects.
C14_Witness ==
    /\ MoveDownEvent
    /\ err = NoErr
    /\ ~focused
    /\ validate[BoundValue] # NoErr
    /\ selected = 1

(***************************************************************************)
(* C15: an advance-key event that directly follows an advance-key event    *)
(* leaves cursor, lastError, focused and bound value as the first one left *)
(* them and returns the same signal: a successful press emits advance      *)
(* again, and the cell is written again with the same value.               *)
(***************************************************************************)
C15_AdvanceIdempotent ==
    [][ ( AdvanceEvent /\ AdvanceEvent' )
        => /\ selected' = selected
           /\ err' = err
           /\ focused' = focused
           /\ cell' = cell
           /\ value' = value
           /\ cmd' = cmd
           /\ written' = written
           /\ ~panicked'
      ]_vars

\* An accepted advance on the last of several options: pressing again
\* finds the cell already holding the highlighted value.
C15_Witness ==
    /\ AdvanceEvent
    /\ cmd = "nextField"
    /\ NumOptions >= 2
    /\ selected = NumOptions - 1
    /\ BoundValue = Highlighted
    /\ validate # AcceptAll

(***************************************************************************)
(* C16: a new field is Blurred; Focus always leaves focused = TRUE and     *)
(* Blur always leaves focused = FALSE, also when its validation fails;     *)
(* neither changes the cursor or the bound value.                          *)
(***************************************************************************)
C16_FocusStateMachine ==
    /\ ~focused
    /\ [][ /\ op' = "Focus" => focused'
           /\ op' = "Blur" => ~focused'
           /\ op' \in { "Focus", "Blur" }
                => /\ selected' = selected
                   /\ cell' = cell
                   /\ value' = value
                   /\ ~panicked'
         ]_vars

\* Blur has failed its validation and the field is Blurred all the same.
C16_Witness ==
    /\ op = "Blur"
    /\ err # NoErr
    /\ ~focused
    /\ selected > 0

(***************************************************************************)
(* C17: View leaves cursor, lastError, focused, options and the bound      *)
(* value (the whole field) unchanged.                                      *)
(***************************************************************************)
C17_ViewReadsOnly ==
    [][ op' = "View" => UNCHANGED field ]_vars

\* View has rendered a focused field that shows an error.
C17_Witness ==
    /\ op = "View"
    /\ ~panicked
    /\ focused
    /\ err # NoErr
    /\ ViewText.errorIndicator
    /\ ViewText.styles = "Focused"

(***************************************************************************)
(* C19: a Blur that directly follows an Update that returned advance       *)
(* validates the value that advance wrote and leaves lastError nil.        *)
(***************************************************************************)
C19_BlurAfterAdvanceSucceeds ==
    [][ ( AdvanceEvent /\ cmd = "nextField" /\ op' = "Blur" )
        => /\ err' = NoErr
           /\ validated' = << Highlighted >>
           /\ ~panicked'
      ]_vars

\* Blur has accepted a written, non-zero value under a validator that
\* rejects the zero value.
C19_Witness ==
    /\ op = "Blur"
    /\ err = NoErr
    /\ InRange(selected)
    /\ validated = << Highlighted >>
    /\ BoundValue = Highlighted
    /\ validate[Zero] # NoErr

(***************************************************************************)
(* C20: Update never changes focused, and the cursor, lastError, bound     *)
(* cell and signal it leaves are the function UpdateOutcome of the message *)
(* and of the state without focused, for a Focused and a Blurred field     *)
(* alike.                                                                  *)
(***************************************************************************)
UpdateOutcome(m) ==
    IF m.type # "KeyMsg" THEN << selected, err, cell, NoCmd >>
    ELSE IF Matches(m, Bindings.Up) THEN << Max(selected - 1, 0), NoErr, cell, NoCmd >>
    ELSE IF Matches(m, Bindings.Down)
         THEN << Min(selected + 1, NumOptions - 1), NoErr, cell, NoCmd >>
    ELSE IF Matches(m, Bindings.Prev) THEN << selected, NoErr, cell, "prevField" >>
    ELSE IF Matches(m, Bindings.Next)
         THEN IF validate[Highlighted] # NoErr
              THEN << selected, validate[Highlighted], cell, NoCmd >>
              ELSE << selected, NoErr, [cell EXCEPT ![value] = Highlighted], "nextField" >>
    ELSE << selected, NoErr, cell, NoCmd >>

C20_UpdateIgnoresFocus ==
    [][ op' = "Update"
        => /\ focused' = focused
           /\ ~panicked' => << selected', err', cell', cmd' >> = UpdateOutcome(msg')
      ]_vars

\* A Blurred field has handled advance-key and returned the advance signal.
C20_Witness ==
    /\ AdvanceEvent
    /\ ~focused
    /\ cmd = "nextField"
    /\ BoundValue = Highlighted
    /\ selected > 0

(***************************************************************************)
(* C18 as claimed: s.value names a cell in every state that construction   *)
(* and configuration reach, Value called with no cell included, so that    *)
(* neither Blur nor a successful advance dereferences a missing cell.      *)
(***************************************************************************)
C18_CellNeverNil ==
    /\ value # "nil"
    /\ op \in { "Blur", "Update" } => ~( panicked /\ value = "nil" )

(***************************************************************************)
(* C11: runAccessible leaves its loop only by returning nil after a choice *)
(* the validator accepted; while the validator rejects every option it     *)
(* stays in the loop; and once it prompts with an acceptable option on     *)
(* offer, a user who eventually enters one makes it return.                *)
(***************************************************************************)
SomeOptionAccepted == \E i \in 1 .. NumOptions : validate[options[i].Value] = NoErr

C11_ReturnsOnlyOnAccept ==
    /\ [][ ( pc = "prompt" /\ pc' # "prompt" )
           => /\ op' = "runAccessible returned nil"
              /\ validate[validated'[1]] = NoErr
              /\ ~panicked'
         ]_vars
    /\ [][ ( pc = "prompt" /\ ~SomeOptionAccepted )
           => /\ pc' = "prompt"
              /\ op' = "runAccessible"
              /\ ~panicked'
         ]_vars
    /\ ( pc = "prompt" /\ SomeOptionAccepted ) ~> ( op = "runAccessible returned nil" )

\* The loop has printed a validation error and prompts again.
C11_Witness ==
    /\ pc = "prompt"
    /\ Len(validated) = 1
    /\ printed # << >>
    /\ printed = validate[validated[1]]
    /\ SomeOptionAccepted
    /\ written = << >>

(***************************************************************************)
(* C12: while the form is interactive exactly one of its fields has        *)
(* focused = TRUE, the field under the focus cursor.                       *)
(***************************************************************************)
C12_ExactlyOneFocused ==
    form.stage = "interactive"
    => /\ Cardinality({ i \in FieldIds : FocusedAt(i) }) = 1
       /\ FocusedAt(form.cur)

\* The modelled Select, in the middle of the form, has lost the focus to
\* the field after it and shows the error its Blur found.
C12_Witness ==
    /\ form.stage = "interactive"
    /\ form.pos = 2
    /\ form.cur = 3
    /\ op = "Blur"
    /\ ~focused
    /\ form.others[3]

(***************************************************************************)
(* C13: a retreat-key event on the first field returns the retreat signal  *)
(* without blurring or validating the field, and while that signal is      *)
(* pending at the first field no step moves the focus cursor, changes a    *)
(* focused flag or calls Blur or Focus.                                    *)
(***************************************************************************)
C13_RetreatAtFirstIsNoOp ==
    [][ /\ ( form.stage = "interactive" /\ form.cur = 1 /\ form.pos = 1 /\ RetreatEvent' )
           => /\ focused' = focused
              /\ validated' = << >>
              /\ cmd' = "prevField"
        /\ ( form.stage = "interactive" /\ form.cur = 1 /\ Signal = "prevField" )
           => /\ form'.cur = 1
              /\ form'.stage = "interactive"
              /\ \A i \in FieldIds : FocusedAt(i)' = FocusedAt(i)
              /\ op' = op \/ op' = "Update"
      ]_vars

\* The first field has returned retreat; it is still focused although its
\* bound value would fail a Blur.
C13_Witness ==
    /\ form.stage = "interactive"
    /\ form.pos = 1
    /\ form.cur = 1
    /\ RetreatEvent
    /\ Signal = "prevField"
    /\ focused
    /\ validate[BoundValue] # NoErr
    /\ err = NoErr

====
